---- MODULE Spec2Model ----
(***************************************************************************)
(* A model of nc_prometheus_exporter: the XML -> Prometheus conversion     *)
(* (src/src/lib/mod.rs, xml_to_prometheus and its helpers), the request    *)
(* handler with its two atomic counters (index, RequestCounter) and the    *)
(* loading of the replacement configuration (src/src/main.rs).             *)
(*                                                                         *)
(* Rust Strings are modelled as sequences of one-character strings, so     *)
(* that joining, replacing, trimming, formatting and sorting are computed  *)
(* character by character as the code computes them.                       *)
(***************************************************************************)
EXTENDS Integers, Sequences, FiniteSets, TLC

\* ------------------------------------------------------------------ bounds

\* Events one document makes the reader return before it is exhausted.
MaxEvents == 5
\* Events of a document with repeated elements.
DupEvents == 7
\* Events of a document when two conversions are compared.
PairEvents == 2
\* Nesting depth of the documents.
MaxDepth == 2
\* Length of the raw values handed to nc_metric_to_number on its own.
MaxValueLen == 3
\* Requests each worker thread of the server handles.
MaxRequests == 2
\* Worker threads of the server.
NumWorkers == 2

\* ----------------------------------------------------------------- strings

DigitChars == <<"0", "1", "2", "3", "4", "5", "6", "7", "8", "9">>

IsDigit(c) == \E i \in 1..10 : DigitChars[i] = c

DigitVal(c) == (CHOOSE i \in 1..10 : DigitChars[i] = c) - 1

\* The byte of a character (ASCII), for the characters the model uses.
Code(c) ==
    CASE c = "\n" -> 10
      [] c = " " -> 32
      [] c = "\"" -> 34
      [] c = "#" -> 35
      [] c = "&" -> 38
      [] c = "." -> 46
      [] IsDigit(c) -> 48 + DigitVal(c)
      [] c = "K" -> 75
      [] c = "O" -> 79
      [] c = "_" -> 95
      [] c = "a" -> 97
      [] c = "b" -> 98
      [] c = "c" -> 99
      [] c = "e" -> 101
      [] c = "h" -> 104
      [] c = "i" -> 105
      [] c = "k" -> 107
      [] c = "m" -> 109
      [] c = "n" -> 110
      [] c = "o" -> 111
      [] c = "r" -> 114
      [] c = "s" -> 115
      [] c = "t" -> 116
      [] c = "x" -> 120
      [] OTHER -> 127

\* format!("{}", n) of a non-negative integer: its decimal digits.
RECURSIVE ToDecimal(_)
ToDecimal(n) ==
    IF n < 10 THEN <<DigitChars[n + 1]>>
    ELSE ToDecimal(n \div 10) \o <<DigitChars[(n % 10) + 1]>>

\* str::trim, for the one whitespace character of the model.
RECURSIVE TrimStart(_)
TrimStart(s) ==
    IF s # <<>> /\ Head(s) = " " THEN TrimStart(Tail(s)) ELSE s

RECURSIVE TrimEnd(_)
TrimEnd(s) ==
    IF s # <<>> /\ s[Len(s)] = " " THEN TrimEnd(SubSeq(s, 1, Len(s) - 1)) ELSE s

Trim(s) == TrimEnd(TrimStart(s))

\* <[String]>::join(sep)
RECURSIVE Join(_, _)
Join(parts, sep) ==
    IF parts = <<>> THEN <<>>
    ELSE IF Len(parts) = 1 THEN parts[1]
    ELSE parts[1] \o sep \o Join(Tail(parts), sep)

\* str::replace(".", "_")
ReplaceDots(s) == [i \in 1..Len(s) |-> IF s[i] = "." THEN "_" ELSE s[i]]

\* Ord for String: bytewise lexicographic, a proper prefix first.
RECURSIVE StrLess(_, _)
StrLess(s, t) ==
    IF t = <<>> THEN FALSE
    ELSE IF s = <<>> THEN TRUE
    ELSE IF Code(Head(s)) # Code(Head(t)) THEN Code(Head(s)) < Code(Head(t))
    ELSE StrLess(Tail(s), Tail(t))

\* ------------------------------------------------------ the pure functions

\* The path joined, its dots kept.
XmlPathJoinNoReplace(path) == Join(path, <<"_">>)

\* fn xml_path_to_metric_name: path.join("_").replace(".", "_")
xml_path_to_metric_name(path) == ReplaceDots(Join(path, <<"_">>))

\* str::parse::<f64>, for the strings the model forms (digits, letters other
\* than those of "inf", "nan" and exponents, space, '&'): a non-empty run of
\* digits is its value, anything else is a ParseFloatError.
ParseF64(s) ==
    IF s # <<>> /\ \A i \in 1..Len(s) : IsDigit(s[i])
    THEN [ok |-> TRUE, num |-> LET RECURSIVE V(_)
                                   V(k) == IF k = 0 THEN 0
                                           ELSE 10 * V(k - 1) + DigitVal(s[k])
                               IN V(Len(s))]
    ELSE [ok |-> FALSE, num |-> 0]

\* serde_json's Value::to_string of a substitute: a number prints its digits,
\* a string prints as a JSON string, quotes included.
ValueToString(v) ==
    IF v.kind = "num" THEN ToDecimal(v.n)
    ELSE <<"\"">> \o v.s \o <<"\"">>

\* The JSON value null: what replace_cfg["values"] is when the loaded
\* document has no "values" member.
Null == [kind |-> "null"]

\* serde_json's Value::get(key): None unless the value is an object holding key.
HasKey(replace_dict, key) ==
    /\ replace_dict.kind = "object"
    /\ key \in DOMAIN replace_dict.map

\* The same with the two lookups in the other order: the map first.
NumberToNumberDictFirst(value, replace_dict) ==
    LET metric == ParseF64(Trim(value))
    IN IF HasKey(replace_dict, Trim(value))
       THEN [ok |-> TRUE, val |-> ValueToString(replace_dict.map[Trim(value)])]
       ELSE IF metric.ok THEN [ok |-> TRUE, val |-> ToDecimal(metric.num)]
            ELSE [ok |-> FALSE, val |-> value]

\* fn nc_metric_to_number(value, replace_dict) -> Result<String, String>
\* ok: Ok(val); not ok: Err (val keeps the text the message quotes).
nc_metric_to_number(value, replace_dict) ==
    LET metric == ParseF64(Trim(value))
    IN IF metric.ok THEN [ok |-> TRUE, val |-> ToDecimal(metric.num)]
       ELSE IF HasKey(replace_dict, Trim(value))
            THEN [ok |-> TRUE, val |-> ValueToString(replace_dict.map[Trim(value)])]
            ELSE [ok |-> FALSE, val |-> value]

\* ------------------------------------------------- replacement configuration

\* A JSON object, as the map of its members.
Object(m) == [kind |-> "object", map |-> m]

Num(n) == [kind |-> "num", n |-> n]

Str(s) == [kind |-> "str", s |-> s]

\* fn get_empty_config: {"names": {}, "values": {}}
get_empty_config == [values |-> Object(<<>>)]

\* The replacement configurations the model loads: the empty one, one in the
\* shape of the tests' ({"values": {"ok": 1, "07": 3, "K": "u"}}: a number, a
\* key that is also numeric text, a string substitute) and a valid JSON
\* document without a "values" member, for which replace_cfg["values"] is null.
TestConfig ==
    [values |-> Object((<<"o", "k">> :> Num(1)) @@ (<<"0", "7">> :> Num(3))
                       @@ (<<"K">> :> Str(<<"u">>)))]

NoValuesConfig == [values |-> Null]

Configs == {get_empty_config, TestConfig, NoValuesConfig}

\* ------------------------------------------------------------ the documents

\* Tag names of the documents.
Tags == {<<"a">>, <<"b", ".", "c">>}

\* Tag names of the documents with repeated elements: an element a2 beside
\* the elements a.
DupTags == {<<"a">>, <<"a", "2">>}

\* Character data of the documents, as the reader delivers it (trimmed): a
\* number with a leading zero, a word and a text with a bare '&'.
Texts == {<<"0", "7">>, <<"o", "k">>, <<"&">>}

\* Character data of the documents with repeated elements.
DupTexts == {<<"0", "7">>}

\* BytesText::unescape_and_decode: an '&' that starts no entity is an
\* EscapeError; the model's texts hold no ';', so every '&' is one.
UnescapeOk(t) == \A i \in 1..Len(t) : t[i] # "&"

\* ---------------------------------------------------------------- the hash

\* md5::compute(names_text)[0..3] read as a base-16 integer. MD5 itself is
\* not computed: a 24-bit rolling digest of the same bytes stands for it. It is
\* deterministic and depends on the order of the bytes, which is all the model
\* uses of it.
RECURSIVE Md5First3(_)
Md5First3(text) ==
    IF text = <<>> THEN 5381
    ELSE (Md5First3(SubSeq(text, 1, Len(text) - 1)) * 33 + Code(text[Len(text)]))
         % 16777216

\* The orders in which HashMap::keys may iterate: any, the hasher is seeded
\* at random per map.
KeyOrders(S) ==
    {s \in [1..Cardinality(S) -> S] : \A i, j \in 1..Cardinality(S) : i # j => s[i] # s[j]}

\* The names left in the order of iteration.
NoSort(names) == names

\* Vec::sort of the names: ascending in String's order.
RECURSIVE SortNames(_)
SortNames(names) ==
    IF names = <<>> THEN <<>>
    ELSE LET i == CHOOSE k \in 1..Len(names) :
                      \A j \in 1..Len(names) : ~StrLess(names[j], names[k])
             rest == [k \in 1..(Len(names) - 1) |-> IF k < i THEN names[k] ELSE names[k + 1]]
         IN <<names[i]>> \o SortNames(rest)

\* names_text: every name followed by a newline.
RECURSIVE NamesText(_)
NamesText(names) ==
    IF names = <<>> THEN <<>>
    ELSE Head(names) \o <<"\n">> \o NamesText(Tail(names))

HashLineName ==
    <<"n", "c", "_", "m", "e", "t", "r", "i", "c", "_", "n", "a", "m", "e",
      "s", "_", "h", "a", "s", "h">>

\* The two comment lines: "# " and the rest of the text as one element.
CommentLine1 ==
    <<"#", " ", "nc_metric_names_hash: first digits of a hash of all extracted metric names">>

CommentLine2 ==
    <<"#", " ", "this number indicates change of names or change of number of metrics">>

\* The trailer with one comment line only.
TrailerOneComment(md5_metric) ==
    <<CommentLine1, HashLineName \o <<" ">> \o ToDecimal(md5_metric)>>

\* The three lines pushed after the loop.
Trailer(md5_metric) ==
    <<CommentLine1, CommentLine2, HashLineName \o <<" ">> \o ToDecimal(md5_metric)>>

\* ------------------------------------------------------------------- state

VARIABLES
    \* xml_to_prometheus
    pc,            \* "loop": in the event loop; "done": returned; "panicked": unwound
    replace_cfg,   \* the replacement configuration the server manages
    reader,        \* the quick_xml Reader: tag_state, opened_starts
    parent_stack,  \* the names of the open elements
    metric_names,  \* HashMap: undecorated name -> occurrences accepted
    txt,           \* the lines pushed so far
    all_names,     \* the sorted names the hash is computed from
    md5_metric,    \* the drift signature
    body,          \* the returned String
    \* history of the conversion
    limit,         \* the number of events the document holds at most
    events,        \* the events read_event has returned, in order
    records,       \* one entry per Text event processed: name, accepted?, value
    errSnap,       \* txt and the names at the first Err of the reader
    prev           \* the shape and the signature of the previous conversion

VARIABLES
    \* a call of nc_metric_to_number
    numPc,         \* "call": about to run; "ret": returned; "idle": no call
    value,         \* the raw text
    replace_dict,  \* the "values" member of the configuration
    result,        \* the returned Result
    \* load_replace_config
    cfgPc,         \* "start", "exists", "open", "read", "parse", "done", "panicked"; "idle"
    file_path,     \* nc_replacement_config
    rep_cfg_path,  \* the resolved path
    fs,            \* what the file system holds at the resolved path
    loaded,        \* the returned Value
    \* the server: index handlers on the worker threads
    req_counter,   \* RequestCounter: start, end
    hpc,           \* per worker: where its handler stands
    cur,           \* per worker: what its current (or last) request has done
    served         \* per worker: requests handled, and those answered with a body

convVars == <<pc, replace_cfg, reader, parent_stack, metric_names, txt, all_names,
              md5_metric, body, limit, events, records, errSnap, prev>>

numVars == <<numPc, value, replace_dict, result>>

cfgVars == <<cfgPc, file_path, rep_cfg_path, fs, loaded>>

idxVars == <<req_counter, hpc, cur, served>>

vars == <<convVars, numVars, cfgVars, idxVars>>

NoSnap == [set |-> FALSE, txt |-> <<>>, names |-> {}]

NoPrev == [set |-> FALSE, shape |-> <<>>, hash |-> 0]

Event(kind, arg) == [kind |-> kind, arg |-> arg]

\* The element structure of a document: its events without the text content.
Shape(evs) ==
    [i \in 1..Len(evs) |-> IF evs[i].kind = "Text" THEN Event("Text", <<>>) ELSE evs[i]]

\* The locals of xml_to_prometheus at its entry.
ConvLocals ==
    /\ pc = "loop"
    /\ reader = [tag_state |-> "Closed", opened_starts |-> <<>>]
    /\ parent_stack = <<>>
    /\ metric_names = <<>>
    /\ txt = <<>>
    /\ all_names = <<>>
    /\ md5_metric = 0
    /\ body = <<>>
    /\ events = <<>>
    /\ records = <<>>
    /\ errSnap = NoSnap

\* No call of nc_metric_to_number on its own.
NumIdle ==
    /\ numPc = "idle"
    /\ value = <<>>
    /\ replace_dict = Null
    /\ result = [ok |-> FALSE, val |-> <<>>]

NoPath == [absolute |-> FALSE, parts |-> <<>>]

NoFile == [kind |-> "absent", content |-> get_empty_config]

\* The configuration is not being loaded.
CfgIdle ==
    /\ cfgPc = "idle"
    /\ file_path = NoPath
    /\ rep_cfg_path = NoPath
    /\ fs = NoFile
    /\ loaded = get_empty_config

\* No server.
IdxIdle ==
    /\ req_counter = [start |-> 0, end |-> 0]
    /\ hpc = <<>>
    /\ cur = <<>>
    /\ served = <<>>

\* No conversion.
ConvIdle ==
    /\ pc = "idle"
    /\ replace_cfg = get_empty_config
    /\ reader = [tag_state |-> "Closed", opened_starts |-> <<>>]
    /\ parent_stack = <<>>
    /\ metric_names = <<>>
    /\ txt = <<>>
    /\ all_names = <<>>
    /\ md5_metric = 0
    /\ body = <<>>
    /\ limit = 0
    /\ events = <<>>
    /\ records = <<>>
    /\ errSnap = NoSnap
    /\ prev = NoPrev

InitConv ==
    /\ ConvLocals
    /\ replace_cfg \in {get_empty_config, TestConfig}
    /\ limit = MaxEvents
    /\ prev = NoPrev
    /\ NumIdle /\ CfgIdle /\ IdxIdle

\* ------------------------------------------------------- the quick_xml Reader

\* read_event can return a further event of the document: the reader has not
\* stopped and the document is not exhausted.
CanRead ==
    /\ pc = "loop"
    /\ reader.tag_state # "Exit"
    /\ Len(events) < limit

\* A reader that would go on with the document after an Err.
ReaderKeepsGoing(r) == r

\* Reader::read_event after an Err or Eof: tag_state becomes Exit, and every
\* later call returns Eof.
ReaderExit(r) == [r EXCEPT !.tag_state = "Exit"]

\* ------------------------------------------------------------ the match arms

Count(names, name) == IF name \in DOMAIN names THEN names[name] ELSE 0

\* metric_names.entry(name).or_insert(0); *name_count += 1
Bump(names, name) ==
    IF name \in DOMAIN names THEN [names EXCEPT ![name] = @ + 1]
    ELSE names @@ (name :> 1)

\* The suffix added from the first occurrence on.
EmittedNameFromOne(name, name_count) == name \o ToDecimal(name_count)

\* if *name_count > 1 { metric_name = format!("{}{}", metric_name, name_count) }
EmittedName(name, name_count) ==
    IF name_count > 1 THEN name \o ToDecimal(name_count) ELSE name

\* format!("{} {}", metric_name, val)
Line(name, val) == name \o <<" ">> \o val

\* Ok(Event::Start(e)): push the tag name.
OnStart(tag) ==
    /\ CanRead
    /\ Len(reader.opened_starts) < MaxDepth
    /\ reader' = [reader EXCEPT !.opened_starts = Append(@, tag)]
    /\ parent_stack' = Append(parent_stack, tag)
    /\ events' = Append(events, Event("Start", tag))
    /\ UNCHANGED <<pc, replace_cfg, metric_names, txt, all_names, md5_metric, body,
                   limit, records, errSnap, prev,
                   numVars, cfgVars, idxVars>>

\* Ok(Event::Text(e)): the reader returns character data up to the next '<',
\* so never two Text events in a row. unescape (unwrap panics on an EscapeError), name the
\* metric after the path, coerce the value and push a line when it is accepted.
OnText(t) ==
    /\ CanRead
    /\ ~(events # <<>> /\ events[Len(events)].kind = "Text")
    /\ events' = Append(events, Event("Text", t))
    /\ IF ~UnescapeOk(t)
       THEN /\ pc' = "panicked"
            /\ UNCHANGED <<metric_names, txt, records>>
       ELSE LET metric_name == xml_path_to_metric_name(parent_stack)
                metric == nc_metric_to_number(t, replace_cfg.values)
                name_count == Count(metric_names, metric_name) + 1
            IN /\ pc' = pc
               /\ records' = Append(records, [name |-> metric_name, ok |-> metric.ok,
                                              val |-> IF metric.ok THEN metric.val ELSE <<>>])
               /\ IF metric.ok
                  THEN /\ metric_names' = Bump(metric_names, metric_name)
                       /\ txt' = Append(txt, Line(EmittedName(metric_name, name_count),
                                                  metric.val))
                  ELSE UNCHANGED <<metric_names, txt>>
    /\ UNCHANGED <<replace_cfg, reader, parent_stack, all_names, md5_metric, body,
                   limit, errSnap, prev,
                   numVars, cfgVars, idxVars>>

\* Ok(Event::End(_)): the reader checks the name against its own stack of
\* open tags, so an End is returned only for the innermost open element.
OnEnd ==
    /\ CanRead
    /\ reader.opened_starts # <<>>
    /\ reader' = [reader EXCEPT !.opened_starts = SubSeq(@, 1, Len(@) - 1)]
    /\ parent_stack' = SubSeq(parent_stack, 1, Len(parent_stack) - 1)
    /\ events' = Append(events, Event("End", <<>>))
    /\ UNCHANGED <<pc, replace_cfg, metric_names, txt, all_names, md5_metric, body,
                   limit, records, errSnap, prev,
                   numVars, cfgVars, idxVars>>

\* _ => (): Empty, Comment, CData, Decl, PI, DocType.
OnOther ==
    /\ CanRead
    /\ events' = Append(events, Event("Other", <<>>))
    /\ UNCHANGED <<pc, replace_cfg, reader, parent_stack, metric_names, txt, all_names,
                   md5_metric, body, limit, records, errSnap, prev,
                   numVars, cfgVars, idxVars>>

\* Err(e): logged; the loop goes on to the next read_event. The reader has
\* stopped: a mismatched or unexpected end tag, a malformed tag, ...
OnErr ==
    /\ CanRead
    /\ reader' = ReaderExit(reader)
    /\ events' = Append(events, Event("Err", <<>>))
    /\ errSnap' = IF errSnap.set THEN errSnap
                  ELSE [set |-> TRUE, txt |-> txt, names |-> DOMAIN metric_names]
    /\ UNCHANGED <<pc, replace_cfg, parent_stack, metric_names, txt, all_names,
                   md5_metric, body, limit, records, prev,
                   numVars, cfgVars, idxVars>>

\* Ok(Event::Eof) => break, and the rest of the function: the names sorted,
\* hashed, the trailer pushed and the lines joined. The document may end at
\* any point; a stopped reader returns nothing else.
OnEof ==
    /\ pc = "loop"
    /\ \E order \in KeyOrders(DOMAIN metric_names) :
          LET sorted == SortNames(order)
              hash == Md5First3(NamesText(sorted))
          IN /\ all_names' = sorted
             /\ md5_metric' = hash
             /\ txt' = txt \o Trailer(hash)
             /\ body' = Join(txt \o Trailer(hash), <<"\n">>)
    /\ reader' = ReaderExit(reader)
    /\ pc' = "done"
    /\ UNCHANGED <<replace_cfg, parent_stack, metric_names, limit, events, records,
                   errSnap, prev,
                   numVars, cfgVars, idxVars>>

\* One turn of the loop, for a document over the given tags and texts.
ConvStep(tags, texts) ==
    \/ \E tag \in tags : OnStart(tag)
    \/ \E t \in texts : OnText(t)
    \/ OnEnd
    \/ OnOther
    \/ OnErr
    \/ OnEof

NextConv == ConvStep(Tags, Texts)

\* One conversion of one document; the loop runs on until it returns or unwinds.
Spec == InitConv /\ [][NextConv]_vars /\ WF_vars(NextConv)

InitDup ==
    /\ ConvLocals
    /\ replace_cfg \in {get_empty_config, TestConfig}
    /\ limit = DupEvents
    /\ prev = NoPrev
    /\ NumIdle /\ CfgIdle /\ IdxIdle

NextDup == ConvStep(DupTags, DupTexts)

\* One conversion of one document with repeated elements.
SpecDup == InitDup /\ [][NextDup]_vars

\* The next request's conversion: xml_to_prometheus is entered anew, with the
\* same configuration; the history keeps the finished conversion's shape and
\* signature.
NextRequest ==
    /\ pc \in {"done", "panicked"}
    /\ prev' = IF pc = "done"
               THEN [set |-> TRUE, shape |-> Shape(events), hash |-> md5_metric]
               ELSE prev
    /\ pc' = "loop"
    /\ reader' = [tag_state |-> "Closed", opened_starts |-> <<>>]
    /\ parent_stack' = <<>>
    /\ metric_names' = <<>>
    /\ txt' = <<>>
    /\ all_names' = <<>>
    /\ md5_metric' = 0
    /\ body' = <<>>
    /\ events' = <<>>
    /\ records' = <<>>
    /\ errSnap' = NoSnap
    /\ UNCHANGED <<replace_cfg, limit, numVars, cfgVars, idxVars>>

InitPair ==
    /\ ConvLocals
    /\ replace_cfg \in {get_empty_config, TestConfig}
    /\ limit = PairEvents
    /\ prev = NoPrev
    /\ NumIdle /\ CfgIdle /\ IdxIdle

NextPair ==
    \/ NextConv
    \/ NextRequest

\* Conversions of the documents of successive requests.
SpecPair == InitPair /\ [][NextPair]_vars

\* ------------------------------------------------ nc_metric_to_number alone

\* Characters of the raw values.
ValueChars == {" ", "0", "7", "o", "k", "K"}

\* The raw values: every string of at most MaxValueLen characters.
Values == UNION {[1..n -> ValueChars] : n \in 0..MaxValueLen}

\* The "values" members a call is given.
Dicts == {c.values : c \in Configs}

InitNum ==
    /\ numPc = "call"
    /\ value \in Values
    /\ replace_dict \in Dicts
    /\ result = [ok |-> FALSE, val |-> <<>>]
    /\ ConvIdle /\ CfgIdle /\ IdxIdle

\* The call returns.
Coerce ==
    /\ numPc = "call"
    /\ result' = nc_metric_to_number(value, replace_dict)
    /\ numPc' = "ret"
    /\ UNCHANGED <<value, replace_dict, convVars, cfgVars, idxVars>>

NextNum == Coerce

\* One call of nc_metric_to_number on a raw value and a "values" member.
SpecNum == InitNum /\ [][NextNum]_vars

\* ------------------------------------------------------- load_replace_config

\* The configuration file named by the exporter's configuration: relative
\* (the default, "replacements.json") or absolute.
FilePaths ==
    {[absolute |-> FALSE, parts |-> <<"replacements.json">>],
     [absolute |-> TRUE, parts |-> <<"srv", "replacements.json">>]}

\* cfg_path.display(): the path of the exporter's configuration.
ConfigPath == [absolute |-> TRUE, parts |-> <<"etc", "nc-prometheus-exporter", "config">>]

\* What the file system may hold at the resolved path: nothing; a file that
\* cannot be opened (no permission); one that opens and cannot be read into a
\* String (a directory, bytes that are no UTF-8); text that is no JSON; a
\* JSON document.
Files ==
    {[kind |-> k, content |-> get_empty_config] :
        k \in {"absent", "unopenable", "unreadable", "malformed"}}
    \cup {[kind |-> "json", content |-> c] : c \in Configs}

InitCfg ==
    /\ cfgPc = "start"
    /\ file_path \in FilePaths
    /\ rep_cfg_path = NoPath
    /\ fs \in Files
    /\ loaded = get_empty_config
    /\ ConvIdle /\ NumIdle /\ IdxIdle

\* A relative path is resolved against the directory of the configuration.
ResolvePath ==
    /\ cfgPc = "start"
    /\ rep_cfg_path' =
          IF ~file_path.absolute
          THEN [absolute |-> ConfigPath.absolute,
                parts |-> SubSeq(ConfigPath.parts, 1, Len(ConfigPath.parts) - 1)
                          \o file_path.parts]
          ELSE file_path
    /\ cfgPc' = "exists"
    /\ UNCHANGED <<file_path, fs, loaded, convVars, numVars, idxVars>>

ExistsOf(f) == f.kind # "absent"

\* if rep_cfg_path.exists() { .. } else: the error is logged and the empty
\* configuration returned.
CheckExists ==
    /\ cfgPc = "exists"
    /\ IF ExistsOf(fs)
       THEN cfgPc' = "open" /\ loaded' = loaded
       ELSE cfgPc' = "done" /\ loaded' = get_empty_config
    /\ UNCHANGED <<file_path, rep_cfg_path, fs, convVars, numVars, idxVars>>

\* File::open(..).expect(..): a failure panics.
OpenFile ==
    /\ cfgPc = "open"
    /\ cfgPc' = IF fs.kind = "unopenable" THEN "panicked" ELSE "read"
    /\ UNCHANGED <<file_path, rep_cfg_path, fs, loaded, convVars, numVars, idxVars>>

\* file.read_to_string(..).expect(..): a failure panics.
ReadFile ==
    /\ cfgPc = "read"
    /\ cfgPc' = IF fs.kind = "unreadable" THEN "panicked" ELSE "parse"
    /\ UNCHANGED <<file_path, rep_cfg_path, fs, loaded, convVars, numVars, idxVars>>

\* serde_json::from_str: Ok(cfg) => cfg, Err(_) => get_empty_config().
ParseFile ==
    /\ cfgPc = "parse"
    /\ loaded' = IF fs.kind = "json" THEN fs.content ELSE get_empty_config
    /\ cfgPc' = "done"
    /\ UNCHANGED <<file_path, rep_cfg_path, fs, convVars, numVars, idxVars>>

\* The server, once it runs with the loaded configuration, coerces a value
\* with it: nc_metric_to_number(raw_text, &replace_cfg["values"]).
UseLoaded(v) ==
    /\ cfgPc = "done"
    /\ numPc = "idle"
    /\ value' = v
    /\ replace_dict' = loaded.values
    /\ result' = nc_metric_to_number(v, loaded.values)
    /\ numPc' = "ret"
    /\ UNCHANGED <<cfgVars, convVars, idxVars>>

NextCfg ==
    \/ ResolvePath
    \/ CheckExists
    \/ OpenFile
    \/ ReadFile
    \/ ParseFile
    \/ \E v \in Values : UseLoaded(v)

\* The start of the process: the replacement configuration is loaded and used.
SpecCfg == InitCfg /\ [][NextCfg]_vars

\* --------------------------------------------------------- the index handler

Workers == 1..NumWorkers

\* A request that has done nothing yet.
NoRequest ==
    [counted_start |-> FALSE, fetch_ok |-> FALSE, converted |-> FALSE,
     counted_end |-> FALSE, response |-> "pending", seen_start |-> 0, seen_end |-> 0]

InitIdx ==
    /\ req_counter = [start |-> 0, end |-> 0]
    /\ hpc = [w \in Workers |-> "idle"]
    /\ cur = [w \in Workers |-> NoRequest]
    /\ served = [w \in Workers |-> [handled |-> 0, ok |-> 0]]
    /\ ConvIdle /\ NumIdle /\ CfgIdle

\* fn count_start: self.start.fetch_add(1, Relaxed), one atomic step.
count_start(c) == [c EXCEPT !.start = @ + 1]

\* count_end adding to the other field.
CountEndBumpsStart(c) == [c EXCEPT !.start = @ + 1]

\* fn count_end: self.end.fetch_add(1, Relaxed), one atomic step.
count_end(c) == [c EXCEPT !.end = @ + 1]

\* A request arrives at worker w: the timer starts and the request is counted.
IndexCountStart(w) ==
    /\ hpc[w] = "idle"
    /\ served[w].handled < MaxRequests
    /\ req_counter' = count_start(req_counter)
    /\ cur' = [cur EXCEPT ![w] = [NoRequest EXCEPT !.counted_start = TRUE]]
    /\ hpc' = [hpc EXCEPT ![w] = "fetch"]
    /\ UNCHANGED <<served, convVars, numVars, cfgVars>>

\* load_status_page returns Some(text).
IndexFetchOk(w) ==
    /\ hpc[w] = "fetch"
    /\ cur' = [cur EXCEPT ![w].fetch_ok = TRUE]
    /\ hpc' = [hpc EXCEPT ![w] = "convert"]
    /\ UNCHANGED <<req_counter, served, convVars, numVars, cfgVars>>

\* load_status_page returns None (no connection, a status other than 200, an
\* undecodable body): None => return None.
IndexFetchFails(w) ==
    /\ hpc[w] = "fetch"
    /\ cur' = [cur EXCEPT ![w].response = "None"]
    /\ hpc' = [hpc EXCEPT ![w] = "idle"]
    /\ served' = [served EXCEPT ![w].handled = @ + 1]
    /\ UNCHANGED <<req_counter, convVars, numVars, cfgVars>>

\* xml_to_prometheus returns the body.
IndexConvert(w) ==
    /\ hpc[w] = "convert"
    /\ cur' = [cur EXCEPT ![w].converted = TRUE]
    /\ hpc' = [hpc EXCEPT ![w] = "count_end"]
    /\ UNCHANGED <<req_counter, served, convVars, numVars, cfgVars>>

\* xml_to_prometheus panics: the handler unwinds and the request fails.
IndexConvertPanics(w) ==
    /\ hpc[w] = "convert"
    /\ cur' = [cur EXCEPT ![w].converted = TRUE, ![w].response = "error"]
    /\ hpc' = [hpc EXCEPT ![w] = "idle"]
    /\ served' = [served EXCEPT ![w].handled = @ + 1]
    /\ UNCHANGED <<req_counter, convVars, numVars, cfgVars>>

\* req_counter.count_end()
IndexCountEnd(w) ==
    /\ hpc[w] = "count_end"
    /\ req_counter' = count_end(req_counter)
    /\ cur' = [cur EXCEPT ![w].counted_end = TRUE]
    /\ hpc' = [hpc EXCEPT ![w] = "load_start"]
    /\ UNCHANGED <<served, convVars, numVars, cfgVars>>

\* req_counter.start.load(Relaxed), the first of the two loads of format!.
IndexLoadStart(w) ==
    /\ hpc[w] = "load_start"
    /\ cur' = [cur EXCEPT ![w].seen_start = req_counter.start]
    /\ hpc' = [hpc EXCEPT ![w] = "load_end"]
    /\ UNCHANGED <<req_counter, served, convVars, numVars, cfgVars>>

\* req_counter.end.load(Relaxed), and Some(format!(..)) is returned.
IndexLoadEnd(w) ==
    /\ hpc[w] = "load_end"
    /\ cur' = [cur EXCEPT ![w].seen_end = req_counter.end, ![w].response = "Some"]
    /\ hpc' = [hpc EXCEPT ![w] = "idle"]
    /\ served' = [served EXCEPT ![w].handled = @ + 1, ![w].ok = @ + 1]
    /\ UNCHANGED <<req_counter, convVars, numVars, cfgVars>>

NextIdx ==
    \E w \in Workers :
        \/ IndexCountStart(w)
        \/ IndexFetchOk(w)
        \/ IndexFetchFails(w)
        \/ IndexConvert(w)
        \/ IndexConvertPanics(w)
        \/ IndexCountEnd(w)
        \/ IndexLoadStart(w)
        \/ IndexLoadEnd(w)

\* The server: index handlers running concurrently on the workers.
SpecIdx == InitIdx /\ [][NextIdx]_vars

\* ------------------------------------------------- reading the output back

\* The part of a line before its first space, and the part after it.
RECURSIVE FirstSpace(_, _)
FirstSpace(line, i) ==
    IF i > Len(line) THEN i
    ELSE IF line[i] = " " THEN i
    ELSE FirstSpace(line, i + 1)

NameOf(line) == SubSeq(line, 1, FirstSpace(line, 1) - 1)

ValueOf(line) == SubSeq(line, FirstSpace(line, 1) + 1, Len(line))

IsComment(line) == line # <<>> /\ line[1] = "#"

\* The lines of a text: split at every newline.
RECURSIVE SplitLines(_)
SplitLines(text) ==
    LET RECURSIVE Nl(_)
        Nl(i) == IF i > Len(text) THEN i
                 ELSE IF text[i] = "\n" THEN i
                 ELSE Nl(i + 1)
        k == Nl(1)
    IN IF k > Len(text) THEN <<text>>
       ELSE <<SubSeq(text, 1, k - 1)>> \o SplitLines(SubSeq(text, k + 1, Len(text)))

\* The accepted records, in the order of their Text events.
Accepted == SelectSeq(records, LAMBDA r : r.ok)

\* The lines pushed for the records: txt without the trailer once it is there.
MetricLines == IF pc = "done" THEN SubSeq(txt, 1, Len(txt) - 3) ELSE txt

\* The occurrence number of the i-th accepted record among those of its name.
Occurrence(i) == Cardinality({j \in 1..i : Accepted[j].name = Accepted[i].name})

\* The ascending sequence of a set of names.
CanonicalOrder(S) ==
    CHOOSE s \in KeyOrders(S) : \A i, j \in 1..Len(s) : i < j => StrLess(s[i], s[j])

\* --------------------------------------------------------------- the claims

\* C1: no two emitted metric lines of one response carry the same name, the
\* nc_metric_names_hash line included. (Fails: the second occurrence of "a"
\* is emitted as "a2", the name of an element a2.)
C1_UniqueNames ==
    \A i, j \in 1..Len(txt) :
        (i < j /\ ~IsComment(txt[i]) /\ ~IsComment(txt[j]))
            => NameOf(txt[i]) # NameOf(txt[j])

\* C2: the drift signature is a function of the set of undecorated names
\* only: whatever the order of appearance, the occurrence counts and the
\* iteration order of the map, a finished conversion's signature is the digest
\* of the ascending list of its name set.
C2_SignatureOfNameSet ==
    pc = "done" =>
        md5_metric = Md5First3(NamesText(CanonicalOrder(DOMAIN metric_names)))

\* Names appear in an order that is not the ascending one.
C2_Witness ==
    /\ pc = "done"
    /\ Len(Accepted) >= 2
    /\ StrLess(Accepted[2].name, Accepted[1].name)

\* C3: two documents with the same element structure that differ only in
\* their text content yield the same signature. (Fails: a text that is
\* rejected takes its name out of the hashed set.)
C3_ValueIndependent ==
    (pc = "done" /\ prev.set /\ prev.shape = Shape(events))
        => md5_metric = prev.hash

\* C4: the k-th accepted record of a name is emitted under the name itself
\* for k = 1 and under the name followed by the decimal k for k > 1, and a
\* name's counter is the number of accepted records of that name.
C4_OccurrenceNaming ==
    /\ Len(MetricLines) = Len(Accepted)
    /\ \A i \in 1..Len(Accepted) :
          NameOf(MetricLines[i]) =
              IF Occurrence(i) = 1 THEN Accepted[i].name
              ELSE Accepted[i].name \o ToDecimal(Occurrence(i))
    /\ DOMAIN metric_names = {Accepted[i].name : i \in 1..Len(Accepted)}
    /\ \A n \in DOMAIN metric_names :
          metric_names[n] = Cardinality({i \in 1..Len(Accepted) : Accepted[i].name = n})

\* A name accepted twice, and a rejected record.
C4_Witness ==
    /\ \E n \in DOMAIN metric_names : metric_names[n] >= 2
    /\ \E i \in 1..Len(records) : ~records[i].ok

\* C6: the returned body is one line per accepted record, in the order of
\* acceptance, then two comment lines and the nc_metric_names_hash line.
C6_BodyLayout ==
    pc = "done" =>
        LET lines == SplitLines(body)
            n == Len(Accepted)
        IN /\ Len(lines) = n + 3
           /\ \A i \in 1..n :
                 /\ ValueOf(lines[i]) = Accepted[i].val
                 /\ SubSeq(NameOf(lines[i]), 1, Len(Accepted[i].name)) = Accepted[i].name
           /\ IsComment(lines[n + 1])
           /\ IsComment(lines[n + 2])
           /\ lines[n + 3] = HashLineName \o <<" ">> \o ToDecimal(md5_metric)

\* A body whose metric lines are not in ascending order.
C6_Witness ==
    /\ pc = "done"
    /\ Len(Accepted) >= 2
    /\ StrLess(NameOf(SplitLines(body)[2]), NameOf(SplitLines(body)[1]))

\* C7: after an error of the parser nothing more is converted: the output is
\* the lines accepted before the error and the trailer, its signature
\* computed over the names collected before the error.
C7_StopsAtError ==
    (pc = "done" /\ errSnap.set) =>
        /\ txt = errSnap.txt \o Trailer(md5_metric)
        /\ {all_names[i] : i \in 1..Len(all_names)} = errSnap.names
        /\ body = Join(errSnap.txt \o Trailer(md5_metric), <<"\n">>)

\* An error in the middle of a document that had produced a line.
C7_Witness ==
    /\ pc = "done"
    /\ errSnap.set
    /\ errSnap.txt # <<>>
    /\ Len(events) < limit

\* C8: the loop exits and the function returns a body, for every document.
\* (Fails: unescape_and_decode(..).unwrap() panics on a text with a bare '&'.)
C8_Terminates == <>(pc = "done")

\* C5: nc_metric_to_number tries, on the trimmed text, first the number, then
\* the exact key of the replacement map, and otherwise rejects: numeric text
\* yields its number even when it is also a key.
C5_CoercionOrder ==
    numPc = "ret" =>
        LET t == Trim(value)
            isNumber == t # <<>> /\ \A i \in 1..Len(t) : IsDigit(t[i])
            isKey == replace_dict.kind = "object" /\ t \in DOMAIN replace_dict.map
        IN IF isNumber
           THEN /\ result.ok
                /\ ParseF64(result.val).ok
                /\ ParseF64(result.val).num = ParseF64(t).num
           ELSE IF isKey
                THEN /\ result.ok
                     /\ result.val = ValueToString(replace_dict.map[t])
                ELSE ~result.ok

\* Numeric text with white space around it that is also a key of the map.
C5_Witness ==
    /\ numPc = "ret"
    /\ value # Trim(value)
    /\ ParseF64(Trim(value)).ok
    /\ replace_dict.kind = "object"
    /\ Trim(value) \in DOMAIN replace_dict.map
    /\ result = [ok |-> TRUE, val |-> <<"7">>]

\* C9: load_replace_config never aborts the process, and returns the empty
\* mapping when the file is absent, cannot be opened or read, or is malformed.
\* (Fails: File::open(..).expect and read_to_string(..).expect panic.)
C9_NeverAborts ==
    /\ cfgPc # "panicked"
    /\ (cfgPc = "done" /\ fs.kind # "json") => loaded = get_empty_config
    /\ (numPc = "ret" /\ fs.kind # "json" /\ ~ParseF64(Trim(value)).ok) => ~result.ok

RECURSIVE SumOver(_, _)
SumOver(f, n) == IF n = 0 THEN 0 ELSE f[n] + SumOver(f, n - 1)

\* Requests that have passed count_start, and those that have passed count_end.
Started == SumOver([w \in Workers |-> served[w].handled + (IF hpc[w] # "idle" THEN 1 ELSE 0)],
                   NumWorkers)

Ended == SumOver([w \in Workers |->
                     served[w].ok + (IF hpc[w] \in {"load_start", "load_end"} THEN 1 ELSE 0)],
                 NumWorkers)

\* C10: under every interleaving of the handlers the two counters never
\* decrease and lose no increment, the completed counter is at most the
\* started counter, and a request whose fetch fails counts as started only,
\* returns no body and does not reach the converter.
C10_Counters ==
    [][/\ req_counter'.start >= req_counter.start
       /\ req_counter'.end >= req_counter.end
       /\ req_counter'.start = Started'
       /\ req_counter'.end = Ended'
       /\ req_counter'.end <= req_counter'.start
       /\ \A w \in Workers :
             /\ (hpc'[w] = "idle" /\ cur'[w].counted_start /\ ~cur'[w].fetch_ok)
                   => (/\ cur'[w].response = "None"
                       /\ ~cur'[w].converted
                       /\ ~cur'[w].counted_end)
             /\ cur'[w].response = "None" => ~cur'[w].fetch_ok]_vars

\* A request whose fetch failed, while another handler is between its two
\* counts and a third request has been answered.
C10_Witness ==
    \E w1, w2 \in Workers :
        /\ w1 # w2
        /\ hpc[w1] = "idle" /\ cur[w1].response = "None"
        /\ hpc[w2] = "count_end"
        /\ req_counter.end >= 1

\* ------------------------------------------------- the tree of the document

\* Start events less End events among evs[j+1..k].
Balance(evs, j, k) ==
    Cardinality({m \in (j + 1)..k : evs[m].kind = "Start"})
      - Cardinality({m \in (j + 1)..k : evs[m].kind = "End"})

\* The element started at position j is still open after event i: no end tag
\* up to i closes more elements than were started after j.
IsOpenAt(evs, j, i) ==
    /\ evs[j].kind = "Start"
    /\ \A k \in (j + 1)..i : Balance(evs, j, k) >= 0

\* The tag names of the elements open after event i, from the root inwards:
\* the ancestors of the node at that position of the tree, itself included.
AncestorPath(evs, i) ==
    LET open == SelectSeq([j \in 1..i |-> j], LAMBDA j : IsOpenAt(evs, j, i))
    IN [n \in 1..Len(open) |-> evs[open[n]].arg]

\* The name a walk of the tree gives a node: the tag of every ancestor with
\* its dots replaced, then joined with underscores.
TreeName(path) == Join([n \in 1..Len(path) |-> ReplaceDots(path[n])], <<"_">>)

\* The positions of the Text events, in document order.
TextPositions(evs) ==
    SelectSeq([j \in 1..Len(evs) |-> j], LAMBDA j : evs[j].kind = "Text")

\* The reader has reported no error: the part of the document read so far is
\* well-formed.
WellFormedSoFar == \A i \in 1..Len(events) : events[i].kind # "Err"

\* C11: while a well-formed document is traversed the path stack is the
\* sequence of the tag names of the open elements, from the root to the
\* current one; it is empty when the document ends with every element
\* closed; and the undecorated name of every text is the ancestor path of its
\* element, itself included, joined with _ and every . replaced by _, which
\* is the name a depth-first walk of the parsed tree gives.
C11_PathStack ==
    WellFormedSoFar =>
        /\ parent_stack = AncestorPath(events, Len(events))
        /\ (pc = "done" /\ AncestorPath(events, Len(events)) = <<>>)
              => parent_stack = <<>>
        /\ LET pos == TextPositions(events)
           IN /\ Len(records) <= Len(pos)
              /\ \A i \in 1..Len(records) :
                    records[i].name = TreeName(AncestorPath(events, pos[i]))

\* A finished well-formed document with an accepted text two elements deep,
\* under a tag with a dot, every element closed again.
C11_Witness ==
    /\ pc = "done"
    /\ WellFormedSoFar
    /\ parent_stack = <<>>
    /\ \E i \in 1..Len(records) :
          /\ records[i].ok
          /\ records[i].name = <<"a", "_", "b", "_", "c">>

====
